---- MODULE Spec2Model ----
(***************************************************************************)
(* Model of src/parse.py (the OCBC statement parser).                      *)
(*                                                                         *)
(* A Python str is modelled as the sequence of its characters, each        *)
(* character a one-character string, so that startswith, split, re.sub     *)
(* and Decimal are computed character by character as the library does.    *)
(* A raw table is a sequence of rows, a row a sequence of cells.           *)
(*                                                                         *)
(* Four specifications share the module's variables:                       *)
(*   SpecAmount  one call of StatementParser.parse_amount                  *)
(*   SpecRows    one call of StatementParser.parse_table_rows, one loop    *)
(*               iteration per step                                        *)
(*   Spec        one call of StatementParser.parse, one table per step     *)
(*   SpecInfo    the same on documents of summary rows only                *)
(***************************************************************************)
EXTENDS Integers, Sequences, FiniteSets, TLC

(***************************************************************************)
(* Bounds of the model.                                                    *)
(***************************************************************************)
MaxAmountLen == 3
MaxRows == 4
MaxTables == 2
MaxBodyRows == 1

(***************************************************************************)
(* String literals of the source.                                          *)
(***************************************************************************)
EMPTY == <<>>
ACCOUNT_NO == <<"A", "c", "c", "o", "u", "n", "t", " ", "N", "o", ".">>
TRANSACTION == <<"T", "r", "a", "n", "s", "a", "c", "t", "i", "o", "n">>
DATE == <<"D", "a", "t", "e">>
TRANSACTION_VALUE == <<"T", "r", "a", "n", "s", "a", "c", "t", "i", "o", "n", "\n", "V", "a", "l", "u", "e">>
DATE_DATE == <<"D", "a", "t", "e", "\n", "D", "a", "t", "e">>
BALANCE_BROUGHT_FORWARD == <<"B", "A", "L", "A", "N", "C", "E", " ", "B", "/", "F">>
BALANCE_CARRIED_FORWARD == <<"B", "A", "L", "A", "N", "C", "E", " ", "C", "/", "F">>
TOTAL_WITHDRAWALS_DEPOSITS == <<"T", "o", "t", "a", "l", " ", "W", "i", "t", "h", "d", "r", "a", "w", "a", "l", "s", "/", "D", "e", "p", "o", "s", "i", "t", "s">>
TOTAL_INTEREST_PAID_THIS_YEAR == <<"T", "o", "t", "a", "l", " ", "I", "n", "t", "e", "r", "e", "s", "t", " ", "P", "a", "i", "d", " ", "T", "h", "i", "s", " ", "Y", "e", "a", "r">>
AVERAGE_BALANCE == <<"A", "v", "e", "r", "a", "g", "e", " ", "B", "a", "l", "a", "n", "c", "e">>
SPECIAL_ROW_DESCRIPTIONS == {BALANCE_BROUGHT_FORWARD, BALANCE_CARRIED_FORWARD, TOTAL_WITHDRAWALS_DEPOSITS, TOTAL_INTEREST_PAID_THIS_YEAR, AVERAGE_BALANCE}

(***************************************************************************)
(* Python values: None, a raised exception, a Decimal.  A Decimal is its   *)
(* coefficient and exponent, value coef * 10^exp, as decimal.Decimal       *)
(* stores it.                                                              *)
(***************************************************************************)
None == [tag |-> "None"]
InvalidOperation == [tag |-> "InvalidOperation"]
DecimalValue(c, e) == [tag |-> "Decimal", coef |-> c, exp |-> e]

DigitChars == <<"0", "1", "2", "3", "4", "5", "6", "7", "8", "9">>
Digits == {DigitChars[i] : i \in 1..10}
DigitVal(c) == (CHOOSE i \in 1..10 : DigitChars[i] = c) - 1

(***************************************************************************)
(* parse_amount, line 321: the character class [^\d.] of re.sub deletes    *)
(* every character that KeptChar rejects.                                  *)
(***************************************************************************)
KeptCharDropsPoint(c) == c \in Digits
KeptChar(c) == c \in Digits \cup {"."}

RECURSIVE re_sub(_)
re_sub(s) ==
    IF s = <<>> THEN <<>>
    ELSE IF KeptChar(Head(s)) THEN <<Head(s)>> \o re_sub(Tail(s))
    ELSE re_sub(Tail(s))

RECURSIVE ToInt(_)
ToInt(s) ==
    IF s = <<>> THEN 0
    ELSE ToInt(SubSeq(s, 1, Len(s) - 1)) * 10 + DigitVal(s[Len(s)])

RECURSIVE FindChar(_, _, _)
FindChar(s, c, i) ==
    IF i > Len(s) THEN 0
    ELSE IF s[i] = c THEN i
    ELSE FindChar(s, c, i + 1)

(* decimal.Decimal(str) on a string of digits and points: an integer part, *)
(* an optional point and a fraction part, at least one digit in all;       *)
(* anything else raises decimal.InvalidOperation.                          *)
Decimal(s) ==
    LET p == FindChar(s, ".", 1)
        intpart == IF p = 0 THEN s ELSE SubSeq(s, 1, p - 1)
        fracpart == IF p = 0 THEN <<>> ELSE SubSeq(s, p + 1, Len(s))
    IN  IF FindChar(fracpart, ".", 1) # 0 THEN InvalidOperation
        ELSE IF Len(intpart) + Len(fracpart) = 0 THEN InvalidOperation
        ELSE DecimalValue(ToInt(intpart \o fracpart), 0 - Len(fracpart))

parse_amount(amount) ==
    IF amount = EMPTY THEN None
    ELSE Decimal(re_sub(amount))

Raises(v) == v.tag = "InvalidOperation"


(***************************************************************************)
(* State.                                                                  *)
(*   amount, amount_result       argument and outcome of parse_amount      *)
(*   data, pos, pass             parse_table_rows: its argument, the       *)
(*                               number of rows the for loop has taken,    *)
(*                               and its locals                            *)
(*   born, contrib               history: the row that constructed each    *)
(*                               Transaction object, and the rows that     *)
(*                               changed an output of the pass             *)
(*   tables, index, all_transactions, all_special_rows, pc                 *)
(*                               parse: the tables read, the loop index    *)
(*                               and the two accumulators                  *)
(*   success_count, failure_count, ignore_count, statement                 *)
(*                               fields of StatementParser                 *)
(*   failures                    the files save_failure_to_csv has written *)
(*   passed, origins             history: what the last parse_table call   *)
(*                               handed to parse_table_rows, and the       *)
(*                               (table, row) that made each transaction   *)
(***************************************************************************)
VARIABLES amount, amount_result,
          data, pos, pass, born, contrib,
          tables, index, all_transactions, all_special_rows, pc,
          success_count, failure_count, ignore_count, statement, failures,
          passed, origins

amountVars == <<amount, amount_result>>
rowVars == <<data, pos, pass, born, contrib>>
docVars == <<tables, index, all_transactions, all_special_rows, pc,
             success_count, failure_count, ignore_count, statement, failures,
             passed, origins>>
vars == <<amountVars, rowVars, docVars>>

(***************************************************************************)
(* Python's zero-based row[i].                                             *)
(***************************************************************************)
Cell(row, i) == row[i + 1]

(***************************************************************************)
(* class Transaction.                                                      *)
(***************************************************************************)
Transaction(transaction_date, value_date, description, cheque, withdrawal, deposit, balance) ==
    [transaction_date |-> transaction_date, value_date |-> value_date,
     descriptions |-> description, cheque |-> cheque,
     withdrawal |-> withdrawal, deposit |-> deposit, balance |-> balance]

(***************************************************************************)
(* parse_table_rows.  Transaction objects live in the heap objs and are    *)
(* referred to by their index there, so that one object appended twice to  *)
(* transactions is the same object; current_transaction = 0 is None.       *)
(*   status  "entry"   before the checks of lines 251-257                  *)
(*           "loop"    inside the for loop                                 *)
(*           "return"  the function has returned                           *)
(*           "raise"   an exception has left the function                  *)
(***************************************************************************)
CanonicalWidth == 7

EntryPass == [objs |-> <<>>, transactions |-> <<>>, special_rows |-> <<>>,
              current_transaction |-> 0, status |-> "entry"]

IsSpecialRow(row) == Cell(row, 2) \in SPECIAL_ROW_DESCRIPTIONS

StopsPassNever(row) == FALSE
StopsPass(row) == Cell(row, 2) = AVERAGE_BALANCE

(* lines 262-270 *)
SpecialRowBranch(st, row) ==
    [st EXCEPT !.special_rows = Append(@, row),
               !.status = IF StopsPass(row) THEN "return" ELSE "loop"]

(* lines 271-282: the pending transaction is appended, then the amounts    *)
(* are parsed; when one raises, the except clause logs and the loop goes   *)
(* on with current_transaction still bound to the object just appended.    *)
DatedRowBranch(st, row) ==
    LET closed == IF st.current_transaction # 0
                  THEN [st EXCEPT !.transactions = Append(@, st.current_transaction)]
                  ELSE st
        withdrawal == parse_amount(Cell(row, 4))
        deposit == parse_amount(Cell(row, 5))
        balance == parse_amount(Cell(row, 6))
    IN  IF Raises(withdrawal) \/ Raises(deposit) \/ Raises(balance)
        THEN closed
        ELSE [closed EXCEPT
                !.objs = Append(@, Transaction(Cell(row, 0), Cell(row, 1), <<Cell(row, 2)>>,
                                               Cell(row, 3), withdrawal, deposit, balance)),
                !.current_transaction = Len(closed.objs) + 1]

(* lines 283-284 and Transaction.append_description; None has no such      *)
(* method, so the call raises AttributeError, which nothing catches.       *)
ContinuationBranch(st, row) ==
    IF st.current_transaction = 0
    THEN [st EXCEPT !.status = "raise"]
    ELSE [st EXCEPT !.objs[st.current_transaction].descriptions = Append(@, Cell(row, 2))]

(* one iteration of the for loop, lines 261-284 *)
RowStep(st, row) ==
    IF IsSpecialRow(row) THEN SpecialRowBranch(st, row)
    ELSE IF Cell(row, 0) # EMPTY THEN DatedRowBranch(st, row)
    ELSE ContinuationBranch(st, row)

(* lines 251-259 *)
CheckRows(st, rows) ==
    IF Len(rows) = 0 THEN [st EXCEPT !.status = "return"]
    ELSE IF Len(rows[1]) # CanonicalWidth THEN [st EXCEPT !.status = "return"]
    ELSE [st EXCEPT !.status = "loop"]

(* lines 285-287 *)
EndOfRows(st) ==
    [st EXCEPT !.transactions = IF st.current_transaction # 0
                                THEN Append(@, st.current_transaction) ELSE @,
               !.status = "return"]

RECURSIVE RowLoop(_, _, _)
RowLoop(st, rows, k) ==
    IF st.status # "loop" THEN st
    ELSE IF k > Len(rows) THEN EndOfRows(st)
    ELSE RowLoop(RowStep(st, rows[k]), rows, k + 1)

(* the whole call; the returned pair is (Transactions(r), r.special_rows)  *)
parse_table_rows(rows) == RowLoop(CheckRows(EntryPass, rows), rows, 1)

(* the list of Transaction objects that st.transactions refers to *)
Transactions(st) == [i \in 1..Len(st.transactions) |-> st.objs[st.transactions[i]]]

(***************************************************************************)
(* Header-stripped rows the row pass is run on: 7 cells each, as camelot   *)
(* yields rectangular tables (comment of line 255).                        *)
(***************************************************************************)
D1 == <<"0", "1", " ", "J", "A", "N">>
D2 == <<"0", "2", " ", "J", "A", "N">>
TxA == <<D1, D1, <<"a">>, EMPTY, <<"1", ".", "5">>, EMPTY, <<"9">>>>
TxB == <<D2, D2, <<"b">>, <<"q">>, EMPTY, <<"2">>, <<"1", "1">>>>
TxBad == <<D2, D2, <<"c">>, EMPTY, <<"1", ".", "2", ".", "3">>, EMPTY, EMPTY>>
Cont == <<EMPTY, EMPTY, <<"x">>, EMPTY, EMPTY, EMPTY, EMPTY>>
CarriedA == <<EMPTY, EMPTY, BALANCE_CARRIED_FORWARD, EMPTY, EMPTY, EMPTY, <<"9">>>>
Average == <<EMPTY, EMPTY, AVERAGE_BALANCE, EMPTY, EMPTY, <<"5">>, EMPTY>>
RowLib == {TxA, TxB, TxBad, Cont, CarriedA, Average}

SeqsUpTo(S, n) == UNION {[1..k -> S] : k \in 0..n}

(***************************************************************************)
(* Values the variables of the other specifications rest at.               *)
(***************************************************************************)
AmountIdle == amount = EMPTY /\ amount_result = [tag |-> "idle"]
RowsIdle == data = <<>> /\ pos = 0 /\ pass = EntryPass /\ born = <<>> /\ contrib = {}
DocIdle ==
    /\ tables = <<>> /\ index = 0 /\ all_transactions = <<>> /\ all_special_rows = <<>>
    /\ pc = "idle" /\ success_count = 0 /\ failure_count = 0 /\ ignore_count = 0
    /\ statement = None /\ failures = {} /\ passed = <<>> /\ origins = <<>>

(***************************************************************************)
(* SpecAmount: parse_amount applied to every string of at most             *)
(* MaxAmountLen characters of AmountChars.                                 *)
(***************************************************************************)
AmountChars == {"0", "7", ".", ",", "C"}

InitAmount ==
    /\ amount \in SeqsUpTo(AmountChars, MaxAmountLen)
    /\ amount_result = [tag |-> "idle"]
    /\ RowsIdle /\ DocIdle

CallParseAmount ==
    /\ amount_result.tag = "idle"
    /\ amount_result' = parse_amount(amount)
    /\ UNCHANGED <<amount, rowVars, docVars>>

NextAmount == CallParseAmount

SpecAmount == InitAmount /\ [][NextAmount]_vars

(***************************************************************************)
(* SpecRows: parse_table_rows on every sequence of at most MaxRows rows    *)
(* of RowLib.                                                              *)
(***************************************************************************)
InitRows ==
    /\ data \in SeqsUpTo(RowLib, MaxRows)
    /\ pos = 0 /\ pass = EntryPass /\ born = <<>> /\ contrib = {}
    /\ AmountIdle /\ DocIdle

(* history kept beside a step of the pass from st to st2 on row k *)
BornAfter(st, st2, k) ==
    IF Len(st2.objs) > Len(st.objs) THEN Append(born, k) ELSE born
ContribAfter(st, st2, k) ==
    IF st2.objs # st.objs \/ st2.transactions # st.transactions
       \/ st2.special_rows # st.special_rows
    THEN contrib \cup {k} ELSE contrib

EnterRows ==
    /\ pass.status = "entry"
    /\ pass' = CheckRows(pass, data)
    /\ UNCHANGED <<data, pos, born, contrib, amountVars, docVars>>

ProcessRow ==
    /\ pass.status = "loop"
    /\ pos < Len(data)
    /\ pass' = RowStep(pass, data[pos + 1])
    /\ pos' = pos + 1
    /\ born' = BornAfter(pass, pass', pos + 1)
    /\ contrib' = ContribAfter(pass, pass', pos + 1)
    /\ UNCHANGED <<data, amountVars, docVars>>

LeaveRows ==
    /\ pass.status = "loop"
    /\ pos = Len(data)
    /\ pass' = EndOfRows(pass)
    /\ UNCHANGED <<data, pos, born, contrib, amountVars, docVars>>

NextRows == EnterRows \/ ProcessRow \/ LeaveRows

SpecRows == InitRows /\ [][NextRows]_vars


(***************************************************************************)
(* Properties of parse_table_rows, checked under SpecRows.                 *)
(***************************************************************************)
IsDatedRow(row) == ~IsSpecialRow(row) /\ Cell(row, 0) # EMPTY
IsContinuationRow(row) == ~IsSpecialRow(row) /\ Cell(row, 0) = EMPTY
FailsNormalization(row) ==
    \E i \in 4..6 : Raises(parse_amount(Cell(row, i)))
RemoveAt(s, k) == SubSeq(s, 1, k - 1) \o SubSeq(s, k + 1, Len(s))
Occurrences(s, x) == Cardinality({i \in DOMAIN s : s[i] = x})

(* C3: a dated non-summary row whose withdrawal, deposit or balance cell   *)
(* fails normalization is skipped alone: the pass returns the transactions *)
(* and summary rows it returns for the same table without that row.        *)
C3_FailedRowSkippedAlone ==
    pass.status = "return" =>
        \A k \in 1..Len(data) :
            IsDatedRow(data[k]) /\ FailsNormalization(data[k]) =>
                LET r == parse_table_rows(RemoveAt(data, k))
                IN  /\ r.status = "return"
                    /\ Transactions(pass) = Transactions(r)
                    /\ pass.special_rows = r.special_rows

(* C4: every Transaction constructed from a dated row is in the returned   *)
(* transaction list exactly once, whichever event ended its pending state  *)
(* (next dated row, summary row, "Average Balance", end of table).         *)
C4_FinalizedExactlyOnce ==
    pass.status = "return" =>
        \A o \in 1..Len(pass.objs) : Occurrences(pass.transactions, o) = 1

HasAverage == \E k \in 1..Len(data) : Cell(data[k], 2) = AVERAGE_BALANCE
FirstAverage ==
    CHOOSE k \in 1..Len(data) :
        /\ Cell(data[k], 2) = AVERAGE_BALANCE
        /\ \A j \in 1..(k - 1) : Cell(data[j], 2) # AVERAGE_BALANCE

(* C5: the first "Average Balance" row halts row consumption: once the     *)
(* pass has returned, that row is the last returned summary row, the loop  *)
(* has taken no row after it, and no later row has constructed a           *)
(* transaction or changed the transactions, the description lines or the  *)
(* summary rows.                                                           *)
C5_AverageBalanceHalts ==
    (pass.status = "return" /\ HasAverage) =>
        /\ pos = FirstAverage
        /\ pass.special_rows # <<>>
        /\ pass.special_rows[Len(pass.special_rows)] = data[FirstAverage]
        /\ contrib \subseteq 1..FirstAverage
        /\ \A i \in DOMAIN born : born[i] <= FirstAverage

(* a returned pass whose "Average Balance" row is followed by rows that    *)
(* would otherwise start a transaction and add a summary row               *)
C5_Witness ==
    /\ pass.status = "return" /\ HasAverage
    /\ FirstAverage >= 2 /\ pass.objs # <<>>
    /\ FirstAverage + 2 <= Len(data)
    /\ IsDatedRow(data[FirstAverage + 1]) /\ ~FailsNormalization(data[FirstAverage + 1])
    /\ IsSpecialRow(data[FirstAverage + 2])

NextDated(k) ==
    LET later == {j \in (k + 1)..Len(data) : IsDatedRow(data[j])}
    IN  IF later = {} THEN Len(data) + 1
        ELSE CHOOSE j \in later : \A m \in later : j <= m

RECURSIVE ContinuationCells(_, _)
ContinuationCells(from, to) ==
    IF from > to THEN <<>>
    ELSE (IF IsContinuationRow(data[from]) THEN <<Cell(data[from], 2)>> ELSE <<>>)
         \o ContinuationCells(from + 1, to)

(* C8: each returned transaction's descriptions are the description cell   *)
(* of the dated row that created it followed, in row order, by the         *)
(* description cells of exactly the continuation rows between that row and *)
(* the next dated row.                                                     *)
C8_DescriptionsOfContinuationRows ==
    pass.status = "return" =>
        \A i \in DOMAIN pass.transactions :
            LET o == pass.transactions[i]
            IN  pass.objs[o].descriptions =
                    <<Cell(data[born[o]], 2)>>
                    \o ContinuationCells(born[o] + 1, NextDated(born[o]) - 1)

(***************************************************************************)
(* str.startswith and str.split.                                           *)
(***************************************************************************)
StartsWith(s, prefix) ==
    Len(s) >= Len(prefix) /\ SubSeq(s, 1, Len(prefix)) = prefix

RECURSIVE Split(_, _)
Split(s, sep) ==
    LET p == FindChar(s, sep, 1)
    IN  IF p = 0 THEN <<s>>
        ELSE <<SubSeq(s, 1, p - 1)>> \o Split(SubSeq(s, p + 1, Len(s)), sep)

(***************************************************************************)
(* save_failure_to_csv: the file failures/<filename>-<index>.csv is        *)
(* (re)written with the rows of data, every newline replaced by the two    *)
(* characters backslash and n.  self is the record of the parser's fields. *)
(***************************************************************************)
RECURSIVE Replace(_)
Replace(s) ==
    IF s = <<>> THEN <<>>
    ELSE (IF Head(s) = "\n" THEN <<"\\", "n">> ELSE <<Head(s)>>) \o Replace(Tail(s))

save_failure_to_csv(self, tdata, idx) ==
    [self EXCEPT !.failures =
        {f \in @ : f.index # idx}
        \cup {[index |-> idx,
               rows |-> [r \in 1..Len(tdata) |->
                           [c \in 1..Len(tdata[r]) |-> Replace(tdata[r][c])]]]}]

(***************************************************************************)
(* parse_table_header.  The result is the record of the parser's fields    *)
(* after the call and ret: None, the rows after the header, or an          *)
(* IndexError raised by a [0] on a row without cells.                      *)
(***************************************************************************)
Rows(rows) == [tag |-> "rows", rows |-> rows]
IndexError == [tag |-> "IndexError"]

(* lines 184-186, 220-222, 231-233 *)
HeaderFailure(self, tdata, idx) ==
    [self |-> save_failure_to_csv([self EXCEPT !.failure_count = @ + 1], tdata, idx),
     ret |-> None]

(* line 223: new_row.extend(row[1:]) *)
ExtendRowKeepsFirst(new_row, row) == new_row \o row
ExtendRow(new_row, row) == new_row \o SubSeq(row, 2, Len(row))

(* lines 209-225, the loop over data[i + 3:] *)
RECURSIVE SplitRows(_, _, _, _, _)
SplitRows(self, tdata, idx, k, modified_data) ==
    IF k > Len(tdata) THEN [self |-> self, ret |-> Rows(modified_data)]
    ELSE LET row == tdata[k]
         IN  IF Len(row) = 0 THEN [self |-> self, ret |-> IndexError]
             ELSE LET new_row == IF Cell(row, 0) = EMPTY THEN <<EMPTY, EMPTY>>
                                 ELSE Split(Cell(row, 0), "\n")
                  IN  IF Len(new_row) # 2 THEN HeaderFailure(self, tdata, idx)
                      ELSE SplitRows(self, tdata, idx, k + 1,
                                     Append(modified_data, ExtendRow(new_row, row)))

(* lines 181-233, the marker row is tdata[i] *)
AfterMarker(self, tdata, idx, i) ==
    IF i + 2 > Len(tdata) THEN HeaderFailure(self, tdata, idx)
    ELSE IF Len(tdata[i + 1]) = 0 \/ Len(tdata[i + 2]) = 0
         THEN [self |-> self, ret |-> IndexError]
    ELSE LET next_leftmost_word == Cell(tdata[i + 1], 0)
             next2_leftmost_word == Cell(tdata[i + 2], 0)
         IN  IF /\ Len(tdata[i]) = 7
                /\ next_leftmost_word = TRANSACTION
                /\ next2_leftmost_word = DATE
             THEN [self |-> [self EXCEPT !.success_count = @ + 1],
                   ret |-> Rows(SubSeq(tdata, i + 3, Len(tdata)))]
             ELSE IF /\ Len(tdata[i]) = 6
                     /\ next_leftmost_word = TRANSACTION_VALUE
                     /\ next2_leftmost_word = DATE_DATE
             THEN SplitRows(self, tdata, idx, i + 3, <<>>)
             ELSE HeaderFailure(self, tdata, idx)

(* lines 172-235, the for loop from row i on *)
RECURSIVE HeaderScan(_, _, _, _)
HeaderScan(self, tdata, idx, i) ==
    IF i > Len(tdata) THEN [self |-> [self EXCEPT !.ignore_count = @ + 1], ret |-> None]
    ELSE IF Len(tdata[i]) = 0 THEN [self |-> self, ret |-> None]
    ELSE IF StartsWith(Cell(tdata[i], 0), ACCOUNT_NO) THEN AfterMarker(self, tdata, idx, i)
    ELSE HeaderScan(self, tdata, idx, i + 1)

parse_table_header(self, tdata, idx) == HeaderScan(self, tdata, idx, 1)

(***************************************************************************)
(* parse_table.  Beside the parser's fields and the returned pair, the     *)
(* result records what the call handed to parse_table_rows (None when it   *)
(* handed nothing) and, for each returned transaction, the row of those    *)
(* rows that constructed it.                                               *)
(***************************************************************************)
RECURSIVE BornOf(_, _, _)
BornOf(st, rows, k) ==
    IF st.status # "loop" \/ k > Len(rows) THEN <<>>
    ELSE LET st2 == RowStep(st, rows[k])
         IN  (IF Len(st2.objs) > Len(st.objs) THEN <<k>> ELSE <<>>) \o BornOf(st2, rows, k + 1)

TableResult(self, status, transactions, rows, handed, made) ==
    [self |-> self, status |-> status, transactions |-> transactions,
     special_rows |-> rows, passed |-> handed, born |-> made]

parse_table(self, table, idx) ==
    IF Len(table) = 0 THEN TableResult(self, "return", <<>>, <<>>, None, <<>>)
    ELSE LET h == parse_table_header(self, table, idx)
         IN  IF h.ret.tag = "IndexError"
             THEN TableResult(h.self, "raise", <<>>, <<>>, None, <<>>)
             ELSE IF h.ret.tag = "None"
             THEN TableResult(h.self, "return", <<>>, <<>>, None, <<>>)
             ELSE LET r == parse_table_rows(h.ret.rows)
                      made == BornOf(CheckRows(EntryPass, h.ret.rows), h.ret.rows, 1)
                  IN  TableResult(h.self, r.status, Transactions(r), r.special_rows, h.ret,
                                  [i \in 1..Len(r.transactions) |-> made[r.transactions[i]]])

(***************************************************************************)
(* parse_special_rows.  Every statement of the loop body is inside the     *)
(* try, so a row whose amounts do not parse leaves info as it was.         *)
(***************************************************************************)
Info ==
    [balance_brought_forward |-> None, balance_carried_forward |-> None,
     total_withdrawals |-> None, total_deposits |-> None,
     total_interest_paid_this_year |-> None, average_balance |-> None]

(* the assignments of lines 301-310: info.<field> = value *)
AssignKeepsFirst(old, value) == IF old = None THEN value ELSE old
Assign(old, value) == value

SpecialRowStep(info, row) ==
    LET withdrawal == parse_amount(Cell(row, 4))
        deposit == parse_amount(Cell(row, 5))
        balance == parse_amount(Cell(row, 6))
        description == Cell(row, 2)
    IN  IF Raises(withdrawal) \/ Raises(deposit) \/ Raises(balance) THEN info
        ELSE IF description = BALANCE_BROUGHT_FORWARD
             THEN [info EXCEPT !.balance_brought_forward = Assign(@, balance)]
        ELSE IF description = BALANCE_CARRIED_FORWARD
             THEN [info EXCEPT !.balance_carried_forward = Assign(@, balance)]
        ELSE IF description = TOTAL_WITHDRAWALS_DEPOSITS
             THEN [info EXCEPT !.total_withdrawals = Assign(@, withdrawal),
                               !.total_deposits = Assign(@, deposit)]
        ELSE IF description = TOTAL_INTEREST_PAID_THIS_YEAR
             THEN [info EXCEPT !.total_interest_paid_this_year = Assign(@, deposit)]
        ELSE IF description = AVERAGE_BALANCE
             THEN [info EXCEPT !.average_balance = Assign(@, deposit)]
        ELSE info

RECURSIVE SpecialRowLoop(_, _, _)
SpecialRowLoop(info, rows, k) ==
    IF k > Len(rows) THEN info
    ELSE SpecialRowLoop(SpecialRowStep(info, rows[k]), rows, k + 1)

parse_special_rows(rows) == SpecialRowLoop(Info, rows, 1)

(* class Statement *)
Statement(info, transactions) == [info |-> info, transactions |-> transactions]

(* list.extend, lines 148-149 *)
ExtendInFront(list, items) == items \o list
Extend(list, items) == list \o items


(***************************************************************************)
(* The raw tables camelot.read_pdf may yield.  A table is rectangular      *)
(* (comment of line 255): no rows, rows without cells, or rows of 6 or 7   *)
(* cells; a header or none, then at most MaxBodyRows rows.                 *)
(***************************************************************************)
HeaderRow(first, width) == [i \in 1..width |-> IF i = 1 THEN first ELSE EMPTY]
ACCT == ACCOUNT_NO \o <<" ", "5">>
FRANK == <<"F", "R", "A", "N", "K">>
HeaderA == <<HeaderRow(ACCT, 7), HeaderRow(TRANSACTION, 7), HeaderRow(DATE, 7)>>
HeaderB == <<HeaderRow(ACCT, 6), HeaderRow(TRANSACTION_VALUE, 6), HeaderRow(DATE_DATE, 6)>>

Brought == <<D1, D1, BALANCE_BROUGHT_FORWARD, EMPTY, EMPTY, EMPTY, <<"4">>>>
CarriedB == <<EMPTY, EMPTY, BALANCE_CARRIED_FORWARD, EMPTY, EMPTY, EMPTY, <<"8", ".", "0">>>>
CarriedBad == <<EMPTY, EMPTY, BALANCE_CARRIED_FORWARD, EMPTY, <<",">>, EMPTY, <<"7">>>>
Totals == <<EMPTY, EMPTY, TOTAL_WITHDRAWALS_DEPOSITS, EMPTY, <<"1", ".", "5">>, <<"2">>, EMPTY>>
Interest == <<EMPTY, EMPTY, TOTAL_INTEREST_PAID_THIS_YEAR, EMPTY, EMPTY, <<"0", ".", "1">>, EMPTY>>
SummaryRows == {Brought, CarriedA, CarriedB, CarriedBad, Totals, Interest, Average}
DocRows == {TxA, TxBad, Cont, CarriedA, Average}

Merged == <<D1 \o <<"\n">> \o D2, <<"a">>, EMPTY, <<"1", ".", "5">>, EMPTY, <<"9">>>>
MergedCarried == <<EMPTY, BALANCE_CARRIED_FORWARD, EMPTY, EMPTY, EMPTY, <<"6">>>>
Unsplit == <<D1, <<"a">>, EMPTY, EMPTY, EMPTY, EMPTY>>
DocRowsMerged == {Merged, MergedCarried, Unsplit}

OtherTables ==
    { <<>>,
      << <<>> >>,
      <<HeaderRow(FRANK, 7)>>,
      <<HeaderRow(ACCT, 7), HeaderRow(TRANSACTION, 7)>>,
      <<HeaderRow(ACCT, 7), HeaderRow(DATE, 7), HeaderRow(TRANSACTION, 7)>>,
      <<HeaderRow(FRANK, 7)>> \o HeaderA \o <<TxA>> }

TableLib ==
    {HeaderA \o b : b \in SeqsUpTo(DocRows, MaxBodyRows)}
    \cup {HeaderB \o b : b \in SeqsUpTo(DocRowsMerged, MaxBodyRows)}
    \cup OtherTables

SummaryTableLib ==
    {HeaderA \o b : b \in SeqsUpTo(SummaryRows, MaxBodyRows)}
    \cup { <<HeaderRow(FRANK, 7)>> }

(***************************************************************************)
(* Spec: StatementParser.parse on every document of at most MaxTables      *)
(* tables of TableLib.                                                     *)
(*   pc  "tables"  in the for loop of lines 146-149                        *)
(*       "done"    parse has returned, self.statement is set               *)
(*       "raised"  an exception has left parse                             *)
(***************************************************************************)
InitParser ==
    /\ index = 0 /\ all_transactions = <<>> /\ all_special_rows = <<>>
    /\ pc = "tables"
    /\ success_count = 0 /\ failure_count = 0 /\ ignore_count = 0
    /\ statement = None /\ failures = {}
    /\ passed = <<>> /\ origins = <<>>
    /\ AmountIdle /\ RowsIdle

Init ==
    /\ tables \in SeqsUpTo(TableLib, MaxTables)
    /\ InitParser

Self ==
    [success_count |-> success_count, failure_count |-> failure_count,
     ignore_count |-> ignore_count, failures |-> failures]

(* one iteration of the loop of lines 146-149 *)
ParseTable ==
    /\ pc = "tables"
    /\ index < Len(tables)
    /\ LET r == parse_table(Self, tables[index + 1], index)
       IN  /\ success_count' = r.self.success_count
           /\ failure_count' = r.self.failure_count
           /\ ignore_count' = r.self.ignore_count
           /\ failures' = r.self.failures
           /\ passed' = Append(passed, r.passed)
           /\ IF r.status = "raise"
              THEN /\ pc' = "raised"
                   /\ UNCHANGED <<index, all_transactions, all_special_rows, origins>>
              ELSE /\ all_transactions' = Extend(all_transactions, r.transactions)
                   /\ all_special_rows' = Extend(all_special_rows, r.special_rows)
                   /\ origins' = origins \o [i \in 1..Len(r.born) |-> <<index, r.born[i]>>]
                   /\ index' = index + 1
                   /\ pc' = pc
    /\ UNCHANGED <<tables, statement, amountVars, rowVars>>

(* lines 150-151 *)
BuildStatement ==
    /\ pc = "tables"
    /\ index = Len(tables)
    /\ statement' = Statement(parse_special_rows(all_special_rows), all_transactions)
    /\ pc' = "done"
    /\ UNCHANGED <<tables, index, all_transactions, all_special_rows, success_count,
                   failure_count, ignore_count, failures, passed, origins,
                   amountVars, rowVars>>

Next == ParseTable \/ BuildStatement

Spec == Init /\ [][Next]_vars


(***************************************************************************)
(* SpecInfo: StatementParser.parse on every document of at most MaxTables  *)
(* tables of SummaryTableLib, the tables whose rows are all summary rows.  *)
(***************************************************************************)
InitInfo ==
    /\ tables \in SeqsUpTo(SummaryTableLib, MaxTables)
    /\ InitParser

SpecInfo == InitInfo /\ [][Next]_vars


(***************************************************************************)
(* Properties of parse, checked under Spec.                                *)
(***************************************************************************)

(* C1: for every ordered sequence of raw tables parse runs to completion   *)
(* and yields a Statement; no table-level or row-level condition raises    *)
(* out of it, a continuation row with no pending transaction included.     *)
C1_ParseAlwaysCompletes ==
    /\ pc # "raised"
    /\ pc = "done" => statement # None

(* the three outcomes of header classification, for the step that          *)
(* classifies tables[index + 1]                                            *)
OutcomeIgnored ==
    /\ ignore_count' = ignore_count + 1
    /\ passed'[Len(passed')].tag = "None"
OutcomeFailure ==
    /\ failure_count' = failure_count + 1
    /\ \E f \in failures' : f.index = index /\ f \notin failures
    /\ passed'[Len(passed')].tag = "None"
OutcomeRecognized ==
    /\ passed'[Len(passed')].tag = "rows"
    /\ ignore_count' = ignore_count
    /\ failure_count' = failure_count
Truths(S) == Cardinality({b \in S : b[2]})

(* C2: header classification of a raw table has exactly one of three       *)
(* outcomes: ignored (ignore_count + 1, no rows passed on), failure        *)
(* (failure_count + 1, raw table persisted, no rows passed on), recognized *)
(* (rows passed on to row classification, both counters unchanged).        *)
C2_ExactlyOneOutcome ==
    [][ (pc = "tables" /\ index < Len(tables)) =>
            Truths({<<"ignored", OutcomeIgnored>>, <<"failure", OutcomeFailure>>,
                    <<"recognized", OutcomeRecognized>>}) = 1 ]_vars

HasMarker(t) ==
    \E i \in 1..Len(t) : Len(t[i]) > 0 /\ StartsWith(t[i][1], ACCOUNT_NO)
MarkerRow(t) ==
    CHOOSE i \in 1..Len(t) :
        /\ StartsWith(t[i][1], ACCOUNT_NO)
        /\ \A j \in 1..(i - 1) : ~StartsWith(t[j][1], ACCOUNT_NO)
IsShapeB(t) ==
    /\ HasMarker(t)
    /\ Len(t[MarkerRow(t)]) = 6
    /\ MarkerRow(t) + 2 <= Len(t)
    /\ t[MarkerRow(t) + 1][1] = TRANSACTION_VALUE
    /\ t[MarkerRow(t) + 2][1] = DATE_DATE
NoNewline(s) == \A i \in DOMAIN s : s[i] # "\n"

LexLeq(a, b) == a[1] < b[1] \/ (a[1] = b[1] /\ a[2] <= b[2])
Indices(s) == [i \in 1..Len(s) |-> i]
TransactionsOfTable(n) ==
    LET at == SelectSeq(Indices(origins), LAMBDA i : origins[i][1] = n - 1)
    IN  [j \in 1..Len(at) |-> statement.transactions[at[j]]]
FreshSelf == [success_count |-> 0, failure_count |-> 0, ignore_count |-> 0, failures |-> {}]

RECURSIVE UpToAverage(_)
UpToAverage(rows) ==
    IF rows = <<>> THEN <<>>
    ELSE IF Cell(Head(rows), 2) = AVERAGE_BALANCE THEN <<Head(rows)>>
    ELSE <<Head(rows)>> \o UpToAverage(Tail(rows))

(* the summary rows table n hands on: those up to its "Average Balance" *)
SummaryRowsOf(n) ==
    IF passed[n].tag = "rows"
    THEN SelectSeq(UpToAverage(passed[n].rows), IsSpecialRow)
    ELSE <<>>

RECURSIVE CollectedFrom(_)
CollectedFrom(n) ==
    IF n > Len(tables) THEN <<>> ELSE SummaryRowsOf(n) \o CollectedFrom(n + 1)

(* the value of column col of the last collected row labelled label whose  *)
(* three amounts parse, None when there is no such row                     *)
LastAssigned(label, col) ==
    LET c == CollectedFrom(1)
        good == {i \in DOMAIN c : Cell(c[i], 2) = label /\ ~FailsNormalization(c[i])}
    IN  IF good = {} THEN None
        ELSE parse_amount(Cell(c[CHOOSE i \in good : \A j \in good : j <= i], col))

(* C6: each Info field holds the value assigned by the last successfully   *)
(* parsed summary row carrying its label, in table order then row order    *)
(* (so of two "BALANCE C/F" rows in different tables the later table's     *)
(* wins), and duplicate labels never make parse fail.                      *)
C6_LastSummaryRowWins ==
    /\ pc # "raised"
    /\ pc = "done" =>
          statement.info =
              [balance_brought_forward |-> LastAssigned(BALANCE_BROUGHT_FORWARD, 6),
               balance_carried_forward |-> LastAssigned(BALANCE_CARRIED_FORWARD, 6),
               total_withdrawals |-> LastAssigned(TOTAL_WITHDRAWALS_DEPOSITS, 4),
               total_deposits |-> LastAssigned(TOTAL_WITHDRAWALS_DEPOSITS, 5),
               total_interest_paid_this_year |-> LastAssigned(TOTAL_INTEREST_PAID_THIS_YEAR, 5),
               average_balance |-> LastAssigned(AVERAGE_BALANCE, 5)]

(* a finished parse of two tables, each with a "BALANCE C/F" row that      *)
(* parses, of different balances, the Info holding the second table's      *)
C6_Witness ==
    /\ pc = "done" /\ Len(tables) = 2
    /\ \E a \in DOMAIN SummaryRowsOf(1), b \in DOMAIN SummaryRowsOf(2) :
          LET ra == SummaryRowsOf(1)[a]
              rb == SummaryRowsOf(2)[b]
          IN  /\ Cell(ra, 2) = BALANCE_CARRIED_FORWARD /\ ~FailsNormalization(ra)
              /\ Cell(rb, 2) = BALANCE_CARRIED_FORWARD /\ ~FailsNormalization(rb)
              /\ parse_amount(Cell(ra, 6)) # parse_amount(Cell(rb, 6))
              /\ statement.info.balance_carried_forward = parse_amount(Cell(rb, 6))


(***************************************************************************)
(* Property of parse_amount, checked under SpecAmount.                     *)
(***************************************************************************)
Residue == SelectSeq(amount, LAMBDA c : c \in Digits \/ c = ".")
PointCount(r) == Cardinality({i \in DOMAIN r : r[i] = "."})
DigitCount(r) == Cardinality({i \in DOMAIN r : r[i] \in Digits})
ValidNumber(r) == PointCount(r) <= 1 /\ DigitCount(r) >= 1
DigitsAfter(r, i) == Cardinality({j \in DOMAIN r : j > i /\ r[j] \in Digits})
FractionDigits(r) ==
    IF PointCount(r) = 0 THEN 0
    ELSE DigitsAfter(r, CHOOSE i \in DOMAIN r : r[i] = ".")

RECURSIVE Pow10(_)
Pow10(n) == IF n = 0 THEN 1 ELSE 10 * Pow10(n - 1)

RECURSIVE DigitSum(_, _)
DigitSum(r, i) ==
    IF i > Len(r) THEN 0
    ELSE (IF r[i] \in Digits THEN DigitVal(r[i]) * Pow10(DigitsAfter(r, i)) ELSE 0)
         + DigitSum(r, i + 1)

(* C9: parse_amount returns None for the empty string and only for it; for *)
(* a non-empty string it raises exactly when the residue of digits and     *)
(* points is not a valid number (no digit, or two points), and otherwise   *)
(* returns the exact decimal value of that residue.                        *)
C9_AmountIsValueOfResidue ==
    amount_result.tag # "idle" =>
        /\ (amount_result.tag = "None") <=> (amount = EMPTY)
        /\ amount # EMPTY =>
              /\ Raises(amount_result) <=> ~ValidNumber(Residue)
              /\ ValidNumber(Residue) =>
                    amount_result = DecimalValue(DigitSum(Residue, 1), 0 - FractionDigits(Residue))

(* an amount with a deleted character, a point and a fraction digit *)
C9_Witness ==
    /\ amount_result.tag = "Decimal"
    /\ Len(Residue) < Len(amount)
    /\ amount_result.exp < 0 /\ amount_result.coef > 0

====
